---------------------------- MODULE Spec2Model ----------------------------
(***************************************************************************)
(* Model of reportpilot-backend.                                           *)
(*                                                                         *)
(*   app/services/ocr.py      process_receipt_with_gemini (retry loop,     *)
(*                            fence stripping, JSON decoding) and          *)
(*                            process_receipt (normalisation, status)      *)
(*   app/routers/reports.py   upload_file, generate_report, delete_report, *)
(*                            get_prediction_data, get_dashboard_stats     *)
(*                                                                         *)
(* Three specifications share the variables: SpecOcr runs the extraction   *)
(* client and its two callers, SpecReports runs the report handlers over   *)
(* the reports table one request at a time, SpecDashboard runs             *)
(* get_dashboard_stats query by query beside generate_report and           *)
(* delete_report.                                                          *)
(*                                                                         *)
(* Encoding of values.  A nullable value (Python None, SQL NULL) is a      *)
(* sequence: <<>> is None and <<v>> holds v.  A timestamp is <<>> or       *)
(* <<year, month>>.  Text is a sequence of tokens; an exception message    *)
(* is the token sequence of str(e).  Money is a whole number of currency   *)
(* units; a rounded average is a whole number of hundredths.               *)
(***************************************************************************)
EXTENDS Integers, Sequences, FiniteSets, TLC

VARIABLES
    \* ---- process_receipt_with_gemini (ocr.py 23-99) ----
    pc,             \* "idle" | "attempt" | "returned" | "raised" | "done"
    caller,         \* "none" | "direct" | "upload_file" | "process_receipt"
    retries,        \* parameter retries
    initial_delay,  \* parameter initial_delay
    attempt,        \* loop variable of for attempt in range(retries + 1)
    delay,          \* local delay
    last_error,     \* local last_error; once pc = "raised", the exception raised
    extracted_data, \* the value returned (<<>> until then)
    \* ---- what the run did (observed, not program state) ----
    calls,          \* number of model.generate_content calls made
    sleeps,         \* the time.sleep calls: <<[after |-> attempt, secs |-> delay]>>
    log,            \* outcome of each finished attempt
    \* ---- callers ----
    upload,         \* upload_file: <<>> or [filename, file_path] while running
    upload_response,\* upload_file: <<>> or the HTTP response
    receipts,       \* table receipts: id -> status
    parsed_data,    \* table parsed_data: sequence of rows
    receipt_id,     \* process_receipt: its argument
    \* ---- reports router ----
    reports,        \* table reports, in scan order
    response,       \* the last response of a reports handler (<<>> at start)
    inserted,       \* number of rows generate_report has inserted
    \* ---- get_dashboard_stats run query by query, beside other requests ----
    dpc,            \* "idle" | "dates" | "rows" | "done": the query it is at
    snap,           \* <<>> or the table its transaction is pinned to
    dash_total_count,\* local total_count
    dash_all_dates, \* local all_dates
    dash_rows,      \* local reports
    deleted         \* number of rows delete_report has deleted

ocrVars == <<pc, caller, retries, initial_delay, attempt, delay, last_error,
             extracted_data, calls, sleeps, log>>
callerVars == <<upload, upload_response, receipts, parsed_data, receipt_id>>
dashVars == <<dpc, snap, dash_total_count, dash_all_dates, dash_rows, deleted>>
reportVars == <<reports, response, inserted, dashVars>>
vars == <<ocrVars, callerVars, reportVars>>

None == <<>>
Some(v) == <<v>>

(***************************************************************************)
(* Bounds of the model.                                                    *)
(***************************************************************************)
MaxRetries == 3      \* direct calls use retries in 0..MaxRetries
MaxSeedRows == 11    \* rows in the reports table at the start: 0..MaxSeedRows
MaxInserts == 1      \* rows generate_report adds
MaxDeletes == 1      \* rows delete_report removes

(***************************************************************************)
(* Program constants.                                                      *)
(***************************************************************************)
DefaultRetries == 3         \* ocr.py 23: retries=3
DefaultInitialDelay == 2    \* ocr.py 23: initial_delay=2
BackoffFactor == 2          \* ocr.py 92: delay *= 2

InitialDelays == {1, DefaultInitialDelay}

(***************************************************************************)
(* Exceptions.  msg is str(e), as tokens.                                  *)
(***************************************************************************)
Err(type, msg) == [type |-> type, msg |-> msg]

\* "429" in error_str or "503" in error_str
IsTransient(e) ==
    \E i \in 1..Len(e.msg) : e.msg[i] = "429" \/ e.msg[i] = "503"

\* Image.open(file_path) failing
OpenErrors ==
    { Err("FileNotFoundError", <<"No such file or directory", "uploads/receipt.jpg">>) }

\* model.generate_content([prompt, img]) failing
ApiErrors ==
    { Err("ResourceExhausted", <<"429", "Resource has been exhausted">>),
      Err("ServiceUnavailable", <<"503", "The service is currently unavailable">>),
      Err("Unauthenticated", <<"401", "API key not valid">>),
      Err("InvalidArgument", <<"400", "Request contains an invalid argument">>) }

(***************************************************************************)
(* JSON values and documents.  A value is [t |-> "null"],                  *)
(* [t |-> "num", n |-> hundredths] or [t |-> "str", s |-> text]; a         *)
(* document is a record of the keys present.                               *)
(***************************************************************************)
JNull == [t |-> "null"]
JNum(n) == [t |-> "num", n |-> n]
JStr(s) == [t |-> "str", s |-> s]

BaseDoc ==
    [vendor |-> JStr("Acme"), date |-> JStr("2024-01-15"), amount |-> JNum(1250),
     currency |-> JStr("COP"), category |-> JStr("Meals"),
     confidence_score |-> JNum(90)]

DocNoConfidence ==
    [vendor |-> JStr("Acme"), date |-> JStr("2024-01-15"), amount |-> JNum(1250),
     currency |-> JStr("COP"), category |-> JStr("Meals")]

Docs ==
    { BaseDoc,
      DocNoConfidence,
      [BaseDoc EXCEPT !.confidence_score = JNull],
      [BaseDoc EXCEPT !.confidence_score = JStr("high")],
      [BaseDoc EXCEPT !.confidence_score = JStr("0.9")],
      [BaseDoc EXCEPT !.date = JStr("15/01/2024")],
      [BaseDoc EXCEPT !.date = JNull, !.vendor = JNull],
      [BaseDoc EXCEPT !.amount = JNull] }

(***************************************************************************)
(* Response text: tokens.  A token is a fence, white space, a JSON         *)
(* document [json |-> doc] or text that is no JSON, [bad |-> position].    *)
(***************************************************************************)
FenceJson == [fence |-> "json"]   \* three backquotes followed by json
Fence == [fence |-> ""]           \* three backquotes
WS == [ws |-> "\n"]
JsonTok(d) == [json |-> d]
BadTok(p) == [bad |-> p]

IsWS(tok) == DOMAIN tok = {"ws"}

\* str.strip()
RECURSIVE LStrip(_)
LStrip(s) == IF s # <<>> /\ IsWS(Head(s)) THEN LStrip(Tail(s)) ELSE s
RECURSIVE RStrip(_)
RStrip(s) ==
    IF s # <<>> /\ IsWS(s[Len(s)]) THEN RStrip(SubSeq(s, 1, Len(s) - 1)) ELSE s
Strip(s) == RStrip(LStrip(s))

\* ocr.py 67-76
StripFences(text) ==
    LET t0 == Strip(text)
        t1 == IF t0 # <<>> /\ Head(t0) = FenceJson THEN Tail(t0) ELSE t0
        t2 == IF t1 # <<>> /\ Head(t1) = Fence THEN Tail(t1) ELSE t1
        t3 == IF t2 # <<>> /\ t2[Len(t2)] = Fence
              THEN SubSeq(t2, 1, Len(t2) - 1) ELSE t2
    IN  Strip(t3)

\* json.loads: the document, or the JSONDecodeError
JsonLoads(text) ==
    IF Len(text) = 1 /\ DOMAIN text[1] = {"json"}
    THEN [ok |-> TRUE, value |-> text[1].json]
    ELSE IF text # <<>> /\ DOMAIN text[1] = {"bad"}
    THEN [ok |-> FALSE,
          error |-> Err("JSONDecodeError", <<"Expecting value", "char", text[1].bad>>)]
    ELSE IF text = <<>> \/ DOMAIN text[1] # {"json"}
    THEN [ok |-> FALSE,
          error |-> Err("JSONDecodeError", <<"Expecting value", "char", "0">>)]
    ELSE [ok |-> FALSE, error |-> Err("JSONDecodeError", <<"Extra data", "char", "57">>)]

ResponseTexts ==
    { <<JsonTok(d)>> : d \in Docs } \cup
    { <<FenceJson, WS, JsonTok(BaseDoc), WS, Fence, WS>>,
      <<WS, Fence, WS, JsonTok(BaseDoc), WS, Fence>>,
      <<FenceJson, WS, JsonTok(BaseDoc)>>,
      <<BadTok("0")>>,
      <<FenceJson, WS, BadTok("429"), WS, Fence>>,
      <<Fence, FenceJson, WS, JsonTok(BaseDoc), Fence>>,
      <<JsonTok(BaseDoc), WS, JsonTok(BaseDoc)>> }

(***************************************************************************)
(* process_receipt_with_gemini                                             *)
(***************************************************************************)
\* a loop that runs one iteration short
RangeLenShort(r) == r

\* the number of iterations of for attempt in range(retries + 1)
RangeLen(r) == r + 1

\* if attempt < retries (ocr.py 89)
MayRetry(a, r) == a < r

\* entry of the function: delay = initial_delay, last_error = None, first iteration
Enter(who, r, d) ==
    /\ caller' = who
    /\ retries' = r
    /\ initial_delay' = d
    /\ delay' = d
    /\ last_error' = IF RangeLen(r) > 0 THEN None
                     ELSE Some(Err("UnboundLocalError", <<"extracted_data">>))
    /\ extracted_data' = None
    /\ attempt' = 0
    /\ calls' = 0
    /\ sleeps' = <<>>
    /\ log' = <<>>
    /\ pc' = IF RangeLen(r) > 0 THEN "attempt" ELSE "raised"

\* the except Exception as e block (ocr.py 83-97) and the loop's next step
\* (falling out of the loop reaches return extracted_data, line 99, with
\* extracted_data unbound: UnboundLocalError)
Handle(e, stage, called) ==
    LET retry == IsTransient(e) /\ MayRetry(attempt, retries)
        more  == attempt + 1 < RangeLen(retries)
    IN  /\ calls' = calls + (IF called THEN 1 ELSE 0)
        /\ log' = Append(log, [stage |-> stage, transient |-> IsTransient(e)])
        /\ IF retry
           THEN /\ sleeps' = Append(sleeps, [after |-> attempt, secs |-> delay])
                /\ delay' = delay * BackoffFactor
           ELSE UNCHANGED <<sleeps, delay>>
        /\ IF ~retry /\ attempt = retries
           THEN /\ pc' = "raised"
                /\ last_error' = Some(e)
                /\ UNCHANGED attempt
           ELSE IF more
           THEN /\ pc' = "attempt"
                /\ last_error' = Some(e)
                /\ attempt' = attempt + 1
           ELSE /\ pc' = "raised"
                /\ last_error' = Some(Err("UnboundLocalError", <<"extracted_data">>))
                /\ UNCHANGED attempt
        /\ UNCHANGED <<caller, retries, initial_delay, extracted_data>>

\* one iteration: Image.open raises
AttemptOpenFails ==
    /\ pc = "attempt"
    /\ \E e \in OpenErrors : Handle(e, "open", FALSE)
    /\ UNCHANGED <<callerVars, reportVars>>

\* one iteration: generate_content raises
AttemptApiFails ==
    /\ pc = "attempt"
    /\ \E e \in ApiErrors : Handle(e, "generate", TRUE)
    /\ UNCHANGED <<callerVars, reportVars>>

\* one iteration: generate_content answers with text that json.loads rejects
AttemptDecodeFails ==
    /\ pc = "attempt"
    /\ \E text \in ResponseTexts :
          LET r == JsonLoads(StripFences(text))
          IN  /\ ~r.ok
              /\ Handle(r.error, "decode", TRUE)
    /\ UNCHANGED <<callerVars, reportVars>>

\* one iteration: generate_content answers with text that decodes; return it
AttemptReturns ==
    /\ pc = "attempt"
    /\ \E text \in ResponseTexts :
          LET r == JsonLoads(StripFences(text))
          IN  /\ r.ok
              /\ extracted_data' = Some(r.value)
    /\ calls' = calls + 1
    /\ log' = Append(log, [stage |-> "ok", transient |-> FALSE])
    /\ pc' = "returned"
    /\ UNCHANGED <<caller, retries, initial_delay, attempt, delay, last_error, sleeps>>
    /\ UNCHANGED <<callerVars, reportVars>>

\* a direct call of process_receipt_with_gemini(file_path, retries, initial_delay)
Extract ==
    /\ pc = "idle"
    /\ \E r \in 0..MaxRetries, d \in InitialDelays : Enter("direct", r, d)
    /\ UNCHANGED <<callerVars, reportVars>>

(***************************************************************************)
(* upload_file (reports.py 100-139).  A file name is a sequence of         *)
(* characters.                                                             *)
(***************************************************************************)
Chars(str) ==
    CASE str = ".jpg"  -> <<".", "j", "p", "g">>
      [] str = ".jpeg" -> <<".", "j", "p", "e", "g">>
      [] str = ".png"  -> <<".", "p", "n", "g">>
      [] str = ".pdf"  -> <<".", "p", "d", "f">>
      [] str = ".csv"  -> <<".", "c", "s", "v">>

\* str.lower(), on the characters the file names use
LowerChar(c) ==
    CASE c = "J" -> "j" [] c = "P" -> "p" [] c = "G" -> "g" [] c = "N" -> "n"
      [] OTHER -> c
Lower(s) == [i \in 1..Len(s) |-> LowerChar(s[i])]

EndsWith(s, suffix) ==
    /\ Len(suffix) <= Len(s)
    /\ SubSeq(s, Len(s) - Len(suffix) + 1, Len(s)) = suffix

\* os.path.splitext(name)[1]: from the last dot on, unless only dots precede it
SplitExt(s) ==
    LET dots == {i \in 1..Len(s) : s[i] = "."}
    IN  IF dots = {} THEN <<>>
        ELSE LET last == CHOOSE i \in dots : \A j \in dots : j <= i
             IN  IF \A j \in 1..(last - 1) : s[j] = "." THEN <<>>
                 ELSE SubSeq(s, last, Len(s))

\* reports.py 106
AllowedSuffixes == {Chars(".csv"), Chars(".pdf"), Chars(".jpg"), Chars(".jpeg"), Chars(".png")}
\* reports.py 120
ImageExtensions == {Chars(".jpg"), Chars(".jpeg"), Chars(".png")}

IsImage(filename) == Lower(SplitExt(filename)) \in ImageExtensions

Filenames ==
    { <<"r">> \o Chars(".jpg"),
      <<"r", ".", "J", "P", "G">>,
      <<"r">> \o Chars(".jpeg"),
      <<"r", ".", "v", "2">> \o Chars(".png"),
      <<"r">> \o Chars(".pdf"),
      Chars(".png"),
      <<"r", ".", "t", "x", "t">> }

\* the uuid4 of the stored file
Uuids == {"uuid-1"}

\* Python truth value of a dict or None: our documents are non-empty dicts
Truthy(x) == x # None

\* an except branch that leaves extracted_data as None
ExtractionFailedDropped(e) == None

\* reports.py 125-128: the except branch of the OCR call
ExtractionFailed(e) == Some([error |-> e.msg])

\* reports.py 130-139
BuildResponse(file_path, filename, data) ==
    IF Truthy(data)
    THEN [status |-> 200,
          body |-> [file_path |-> file_path, filename |-> filename,
                    extracted_data |-> data[1]]]
    ELSE [status |-> 200, body |-> [file_path |-> file_path, filename |-> filename]]

\* upload_file up to the OCR call; a file that is no image is answered at once
UploadFile ==
    /\ pc = "idle"
    /\ \E filename \in Filenames, u \in Uuids :
          IF ~\E suf \in AllowedSuffixes : EndsWith(Lower(filename), suf)
          THEN /\ upload_response' =
                     Some([status |-> 400, body |-> [detail |-> "Invalid file type"]])
               /\ pc' = "done"
               /\ caller' = "upload_file"
               /\ UNCHANGED <<upload, retries, initial_delay, attempt, delay,
                              last_error, extracted_data, calls, sleeps, log>>
          ELSE LET file_path == [dir |-> "uploads", name |-> u,
                                 ext |-> SplitExt(filename)]
               IN  /\ upload' = Some([filename |-> filename, file_path |-> file_path])
                   /\ IF IsImage(filename)
                      THEN /\ Enter("upload_file", DefaultRetries, DefaultInitialDelay)
                           /\ UNCHANGED upload_response
                      ELSE /\ upload_response' =
                                 Some(BuildResponse(file_path, filename, None))
                           /\ pc' = "done"
                           /\ caller' = "upload_file"
                           /\ UNCHANGED <<retries, initial_delay, attempt, delay,
                                          last_error, extracted_data, calls, sleeps, log>>
    /\ UNCHANGED <<receipts, parsed_data, receipt_id, reportVars>>

\* upload_file from the return (or the exception) of the OCR call on
UploadFileFinish ==
    /\ caller = "upload_file"
    /\ pc \in {"returned", "raised"}
    /\ LET data == IF pc = "returned" THEN extracted_data
                   ELSE ExtractionFailed(last_error[1])
       IN  upload_response' =
               Some(BuildResponse(upload[1].file_path, upload[1].filename, data))
    /\ pc' = "done"
    /\ UNCHANGED <<caller, retries, initial_delay, attempt, delay, last_error,
                   extracted_data, calls, sleeps, log>>
    /\ UNCHANGED <<upload, receipts, parsed_data, receipt_id, reportVars>>

(***************************************************************************)
(* process_receipt (ocr.py 102-143)                                        *)
(***************************************************************************)
ReceiptIds == {1}
UnknownReceiptIds == {2}

\* dict.get(key, default)
Get(doc, key, default) == IF key \in DOMAIN doc THEN doc[key] ELSE default

\* Python truth value of a JSON value
TruthyValue(v) ==
    CASE v.t = "null" -> FALSE
      [] v.t = "num" -> v.n # 0
      [] v.t = "str" -> v.s # ""

\* the strings float() accepts, with their value in hundredths
NumericStrings == {"0.9", "12.50"}
StrToHundredths(str) == CASE str = "0.9" -> 90 [] str = "12.50" -> 1250

\* float(v)
Float(v) ==
    CASE v.t = "num" -> [ok |-> TRUE, n |-> v.n]
      [] v.t = "str" /\ v.s \in NumericStrings -> [ok |-> TRUE, n |-> StrToHundredths(v.s)]
      [] v.t = "str" /\ v.s \notin NumericStrings -> [ok |-> FALSE, error |-> "ValueError"]
      [] v.t = "null" -> [ok |-> FALSE, error |-> "TypeError"]

\* the strings strptime(s, "%Y-%m-%d") accepts
IsoDates == {"2024-01-15"}

\* ocr.py 116-121: the date, None when absent or malformed; strptime on a
\* value that is no string raises TypeError, which line 120 does not catch
ParseDate(doc) ==
    LET v == Get(doc, "date", JNull)
    IN  IF ~TruthyValue(v) THEN [ok |-> TRUE, date |-> None]
        ELSE IF v.t # "str" THEN [ok |-> FALSE, error |-> "TypeError"]
        ELSE IF v.s \in IsoDates THEN [ok |-> TRUE, date |-> Some(v.s)]
        ELSE [ok |-> TRUE, date |-> None]

\* ocr.py 131
ConfidenceOf(doc) == Float(Get(doc, "confidence_score", JNum(0)))
\* ocr.py 128
AmountOf(doc) == Float(Get(doc, "amount", JNum(0)))

\* ocr.py 116-132: the ParsedData row, or the exception
Normalize(rid, doc) ==
    LET d == ParseDate(doc)
        a == AmountOf(doc)
        c == ConfidenceOf(doc)
    IN  IF ~d.ok THEN [ok |-> FALSE, error |-> d.error]
        ELSE IF ~a.ok THEN [ok |-> FALSE, error |-> a.error]
        ELSE IF ~c.ok THEN [ok |-> FALSE, error |-> c.error]
        ELSE [ok |-> TRUE,
              row |-> [receipt_id |-> rid,
                       vendor |-> Get(doc, "vendor", JStr("Unknown")),
                       date |-> d.date,
                       amount |-> a.n,
                       currency |-> Get(doc, "currency", JStr("USD")),
                       category |-> Get(doc, "category", JStr("Other")),
                       confidence_score |-> c.n]]

\* process_receipt up to the OCR call; an unknown receipt id returns at once
ProcessReceipt ==
    /\ pc = "idle"
    /\ \E rid \in ReceiptIds \cup UnknownReceiptIds :
          /\ receipt_id' = rid
          /\ IF rid \notin DOMAIN receipts
             THEN /\ pc' = "done"
                  /\ caller' = "process_receipt"
                  /\ UNCHANGED <<retries, initial_delay, attempt, delay, last_error,
                                 extracted_data, calls, sleeps, log>>
             ELSE Enter("process_receipt", DefaultRetries, DefaultInitialDelay)
    /\ UNCHANGED <<upload, upload_response, receipts, parsed_data, reportVars>>

\* process_receipt from the return (or the exception) of the OCR call on
ProcessReceiptFinish ==
    /\ caller = "process_receipt"
    /\ pc \in {"returned", "raised"}
    /\ LET n == IF pc = "returned" THEN Normalize(receipt_id, extracted_data[1])
                ELSE [ok |-> FALSE, error |-> last_error[1].type]
       IN  IF n.ok
           THEN /\ parsed_data' = Append(parsed_data, n.row)
                /\ receipts' = [receipts EXCEPT ![receipt_id] = "PROCESSED"]
           ELSE /\ receipts' = [receipts EXCEPT ![receipt_id] = "FAILED"]
                /\ UNCHANGED parsed_data
    /\ pc' = "done"
    /\ UNCHANGED <<caller, retries, initial_delay, attempt, delay, last_error,
                   extracted_data, calls, sleeps, log>>
    /\ UNCHANGED <<upload, upload_response, receipt_id, reportVars>>


(***************************************************************************)
(* The reports table.  A row is                                            *)
(*   [tour_id, category, amount, created_at]                               *)
(* each nullable; the columns no aggregation reads are left out.  Queries  *)
(* without ORDER BY return the rows in table order.  amount is a whole     *)
(* number of currency units, created_at is <<year, month>>.                *)
(***************************************************************************)
Row(tour, cat, amt, at) ==
    [tour_id |-> tour, category |-> cat, amount |-> amt, created_at |-> at]

\* the i-th month from 2023-07 on (1 is 2023-07, 7 is 2024-01)
PeriodAt(i) == <<2023 + ((5 + i) \div 12), ((5 + i) % 12) + 1>>

\* rows already in the table: row i is dated in month i - (i \div 4), so every
\* fourth row shares its month with the row before it
SeedTours == <<Some("T1"), Some("T2"), Some("T1"), None>>
SeedCategories == <<Some("B"), Some("A"), Some("B"), None, Some("")>>
SeedAmounts == <<Some(3), None, Some(4), Some(0), Some(10)>>
SeedRow(i) ==
    Row(SeedTours[(i % 4) + 1], SeedCategories[((i - 1) % 5) + 1],
        SeedAmounts[((i - 1) % 5) + 1], Some(PeriodAt(i - (i \div 4))))

Reverse(s) == [i \in 1..Len(s) |-> s[Len(s) + 1 - i]]

\* the first n seed rows, oldest first or newest first
SeedTable(n, order) ==
    LET asc == [i \in 1..n |-> SeedRow(i)]
    IN  IF order = "asc" THEN asc ELSE Reverse(asc)

(***************************************************************************)
(* generate_report (reports.py 12-89)                                      *)
(***************************************************************************)
\* requests: tour_id and extracted_data (None, or a dict of the keys sent)
ReportRequests ==
    { [tour_id |-> Some("T1"), extracted_data |-> Some([category |-> Some("A"), amount |-> Some(5)])],
      [tour_id |-> Some("T3"), extracted_data |-> Some([category |-> Some("B"), amount |-> Some(2)])],
      [tour_id |-> None,       extracted_data |-> Some([category |-> Some("A"), amount |-> Some(1)])],
      [tour_id |-> Some("T2"), extracted_data |-> None],
      [tour_id |-> Some("T3"), extracted_data |-> Some([category |-> None, amount |-> Some(4)])],
      [tour_id |-> Some("T1"), extracted_data |-> Some([amount |-> Some(7)])] }

\* the created_at the Report model gives a new row
InsertTimestamps == {None, Some(<<2024, 7>>)}

\* data.get(key)
DataGet(data, key) == IF key \in DOMAIN data THEN data[key] ELSE None

\* reports.py 46-78: the row built from the request
ReportRow(req, at) ==
    IF Truthy(req.extracted_data)
    THEN Row(req.tour_id, DataGet(req.extracted_data[1], "category"),
             DataGet(req.extracted_data[1], "amount"), at)
    ELSE Row(req.tour_id, None, None, at)

GenerateReport ==
    /\ inserted < MaxInserts
    /\ \E req \in ReportRequests, at \in InsertTimestamps :
          /\ reports' = Append(reports, ReportRow(req, at))
          /\ response' = Some([kind |-> "report", report |-> ReportRow(req, at)])
    /\ inserted' = inserted + 1
    /\ UNCHANGED <<ocrVars, callerVars, dashVars>>

(***************************************************************************)
(* Python dicts keep insertion order: a dict is a sequence of              *)
(* [key, value] entries with distinct keys.                                *)
(***************************************************************************)
HasKey(d, k) == \E i \in 1..Len(d) : d[i].key = k
IndexOf(d, k) == CHOOSE i \in 1..Len(d) : d[i].key = k

\* d[k] = v
DictOverwrite(d, k, v) ==
    IF HasKey(d, k) THEN [d EXCEPT ![IndexOf(d, k)].value = v]
    ELSE Append(d, [key |-> k, value |-> v])

\* d[k] = d.get(k, 0) + v
DictAdd(d, k, v) ==
    IF HasKey(d, k) THEN [d EXCEPT ![IndexOf(d, k)].value = @ + v]
    ELSE Append(d, [key |-> k, value |-> v])

\* x or default, for a nullable string: None and "" give the default
StrOr(x, default) == IF x = None \/ x = Some("") THEN default ELSE x[1]

\* x or 0, for a nullable number
NumOrZero(x) == IF x = None THEN 0 ELSE x[1]

\* round(num / den, 2) in hundredths, cut off instead of rounded
Round2Truncated(num, den) == (100 * num) \div den

\* round(num / den, 2) in hundredths: to nearest, an exact tie to even
Round2(num, den) ==
    LET q == (100 * num) \div den
        r == (100 * num) % den
    IN  IF 2 * r < den THEN q
        ELSE IF 2 * r > den THEN q + 1
        ELSE IF q % 2 = 0 THEN q ELSE q + 1

(***************************************************************************)
(* get_prediction_data (reports.py 229-289)                                *)
(***************************************************************************)
PredictionDefaultCategory == "Uncategorized"

\* reports.py 248-260: tour_costs, a dict tid -> [total, categories]
RECURSIVE TourCosts(_, _)
TourCosts(rows, acc) ==
    IF rows = <<>> THEN acc
    ELSE LET r == Head(rows)
             tid == r.tour_id[1]
             amount == NumOrZero(r.amount)
             cat == StrOr(r.category, PredictionDefaultCategory)
             acc1 == IF HasKey(acc, tid) THEN acc
                     ELSE Append(acc, [key |-> tid,
                                       value |-> [total |-> 0, categories |-> <<>>]])
             i == IndexOf(acc1, tid)
         IN  TourCosts(Tail(rows),
                 [acc1 EXCEPT ![i].value.total = @ + amount,
                              ![i].value.categories = DictAdd(@, cat, amount)])

\* reports.py 274-275
RECURSIVE TotalCostSum(_)
TotalCostSum(tc) ==
    IF tc = <<>> THEN 0 ELSE Head(tc).value.total + TotalCostSum(Tail(tc))

\* reports.py 276-277, one tour
RECURSIVE MergeCategories(_, _)
MergeCategories(cats, acc) ==
    IF cats = <<>> THEN acc
    ELSE MergeCategories(Tail(cats), DictAdd(acc, Head(cats).key, Head(cats).value))

\* reports.py 274-277
RECURSIVE CategorySums(_, _)
CategorySums(tc, acc) ==
    IF tc = <<>> THEN acc
    ELSE CategorySums(Tail(tc), MergeCategories(Head(tc).value.categories, acc))

ZeroPrediction == [kind |-> "prediction", average_total |-> 0, sample_size |-> 0,
                   by_category |-> <<>>]

Prediction(table) ==
    LET rows == SelectSeq(table, LAMBDA r : r.tour_id # None)
        tour_costs == TourCosts(rows, <<>>)
        sample_size == Len(tour_costs)
        sums == CategorySums(tour_costs, <<>>)
    IN  IF rows = <<>> THEN ZeroPrediction
        ELSE IF sample_size = 0 THEN ZeroPrediction
        ELSE [kind |-> "prediction",
              average_total |-> Round2(TotalCostSum(tour_costs), sample_size),
              sample_size |-> sample_size,
              by_category |-> [i \in 1..Len(sums) |->
                                 [key |-> sums[i].key,
                                  value |-> Round2(sums[i].value, sample_size)]]]

GetPredictionData ==
    /\ response' = Some(Prediction(reports))
    /\ UNCHANGED <<reports, inserted, ocrVars, callerVars, dashVars>>

(***************************************************************************)
(* get_dashboard_stats (reports.py 291-348).  recent_activity, the rows of *)
(* a second query passed through unchanged, is left out.                   *)
(***************************************************************************)
MonthlyWindow == 6     \* reports.py 325: [-6:]

\* the label the source gives, "Sin Categor" followed by the two characters
\* of a mis-decoded i-acute and "a"; written here in ASCII
DashboardDefaultCategory == "Sin Categoria"

\* strftime("%b") of strptime(k, "%Y-%m")
MonthAbbr == <<"Jan", "Feb", "Mar", "Apr", "May", "Jun",
               "Jul", "Aug", "Sep", "Oct", "Nov", "Dec">>

\* reports.py 317-322: stats_map, keyed by strftime("%Y-%m"), here <<year, month>>
RECURSIVE StatsMap(_, _)
StatsMap(dates, acc) ==
    IF dates = <<>> THEN acc
    ELSE StatsMap(Tail(dates),
                  IF Head(dates) # None THEN DictAdd(acc, Head(dates)[1], 1) ELSE acc)

\* order of the strings "YYYY-MM"
KeyLess(a, b) == a[1] < b[1] \/ (a[1] = b[1] /\ a[2] < b[2])

RECURSIVE InsertSorted(_, _)
InsertSorted(k, s) ==
    IF s = <<>> THEN <<k>>
    ELSE IF KeyLess(k, Head(s)) THEN <<k>> \o s
    ELSE <<Head(s)>> \o InsertSorted(k, Tail(s))

RECURSIVE SortKeys(_)
SortKeys(s) == IF s = <<>> THEN <<>> ELSE InsertSorted(Head(s), SortKeys(Tail(s)))

\* the keys in dict order, unsorted
KeysUnsorted(stats_map) == [i \in 1..Len(stats_map) |-> stats_map[i].key]

\* sorted(stats_map.keys())
SortedKeys(stats_map) == SortKeys([i \in 1..Len(stats_map) |-> stats_map[i].key])

\* s[-n:]
LastN(s, n) == IF Len(s) <= n THEN s ELSE SubSeq(s, Len(s) - n + 1, Len(s))

\* reports.py 325-332
MonthlyStats(stats_map) ==
    LET sorted_keys == LastN(SortedKeys(stats_map), MonthlyWindow)
    IN  [i \in 1..Len(sorted_keys) |->
            [month |-> MonthAbbr[sorted_keys[i][2]],
             total |-> stats_map[IndexOf(stats_map, sorted_keys[i])].value]]

\* reports.py 335-339
RECURSIVE CategoryTotals(_, _)
CategoryTotals(rows, acc) ==
    IF rows = <<>> THEN acc
    ELSE CategoryTotals(Tail(rows),
             DictAdd(acc, StrOr(Head(rows).category, DashboardDefaultCategory),
                     NumOrZero(Head(rows).amount)))

Dashboard(table) ==
    LET total_count == Len(table)
        all_dates == [i \in 1..Len(table) |-> table[i].created_at]
        stats_map == StatsMap(all_dates, <<>>)
        category_totals == CategoryTotals(table, <<>>)
    IN  [kind |-> "dashboard",
         total_reports |-> total_count,
         monthly_stats |-> MonthlyStats(stats_map),
         category_stats |-> [i \in 1..Len(category_totals) |->
                               [name |-> category_totals[i].key,
                                value |-> category_totals[i].value]]]

GetDashboardStats ==
    /\ response' = Some(Dashboard(reports))
    /\ UNCHANGED <<reports, inserted, ocrVars, callerVars, dashVars>>


(***************************************************************************)
(* delete_report (reports.py 209-227).  A row is identified by its place   *)
(* in the table; id 0 is the id of no row.                                 *)
(***************************************************************************)
RemoveAt(s, i) == SubSeq(s, 1, i - 1) \o SubSeq(s, i + 1, Len(s))

DeleteReport ==
    /\ \E report_id \in 0..Len(reports) :
          IF report_id = 0
          THEN /\ response' = Some([kind |-> "error", status |-> 404])
               /\ UNCHANGED <<reports, deleted>>
          ELSE /\ deleted < MaxDeletes
               /\ reports' = RemoveAt(reports, report_id)
               /\ deleted' = deleted + 1
               /\ response' = Some([kind |-> "deleted", status |-> 204])
    /\ UNCHANGED <<inserted, dpc, snap, dash_total_count, dash_all_dates, dash_rows>>
    /\ UNCHANGED <<ocrVars, callerVars>>

(***************************************************************************)
(* get_dashboard_stats, one step per query, while generate_report and      *)
(* delete_report commit in between.  The handler opens no transaction of   *)
(* its own: what a later query sees is decided by the session that get_db  *)
(* hands in.  Either each statement reads the rows committed when it runs  *)
(* (SQLite, and READ COMMITTED elsewhere), or the transaction is pinned to  *)
(* the rows of its first statement (REPEATABLE READ and above).  The       *)
(* second query (recent_activity) is left out, as in Dashboard.            *)
(***************************************************************************)
IsolationLevels == {"statement", "snapshot"}

\* the rows a query of the handler sees
Visible == IF snap # None THEN snap[1] ELSE reports

\* reports.py 314: the created_at column
DatesOf(table) == [i \in 1..Len(table) |-> table[i].created_at]

\* reports.py 317-348, from the results of the three queries
DashboardOf(count, dates, rows) ==
    LET stats_map == StatsMap(dates, <<>>)
        category_totals == CategoryTotals(rows, <<>>)
    IN  [kind |-> "dashboard",
         total_reports |-> count,
         monthly_stats |-> MonthlyStats(stats_map),
         category_stats |-> [i \in 1..Len(category_totals) |->
                               [name |-> category_totals[i].key,
                                value |-> category_totals[i].value]]]

\* reports.py 303: total_count = db.query(models.Report).count()
DashCount ==
    /\ dpc = "idle"
    /\ \E iso \in IsolationLevels :
          snap' = IF iso = "snapshot" THEN Some(reports) ELSE None
    /\ dash_total_count' = Len(reports)
    /\ dpc' = "dates"
    /\ UNCHANGED <<reports, response, inserted, dash_all_dates, dash_rows, deleted>>
    /\ UNCHANGED <<ocrVars, callerVars>>

\* reports.py 314: all_dates = db.query(models.Report.created_at).all()
DashDates ==
    /\ dpc = "dates"
    /\ dash_all_dates' = DatesOf(Visible)
    /\ dpc' = "rows"
    /\ UNCHANGED <<reports, response, inserted, snap, dash_total_count, dash_rows, deleted>>
    /\ UNCHANGED <<ocrVars, callerVars>>

\* reports.py 336-348: reports = db.query(models.Report).all(), and the answer
DashRows ==
    /\ dpc = "rows"
    /\ dash_rows' = Visible
    /\ response' = Some(DashboardOf(dash_total_count, dash_all_dates, Visible))
    /\ dpc' = "done"
    /\ UNCHANGED <<reports, inserted, snap, dash_total_count, dash_all_dates, deleted>>
    /\ UNCHANGED <<ocrVars, callerVars>>

InitDashboard ==
    /\ dpc = "idle"
    /\ snap = None
    /\ dash_total_count = 0
    /\ dash_all_dates = <<>>
    /\ dash_rows = <<>>
    /\ deleted = 0

InitOcr ==
    /\ pc = "idle"
    /\ caller = "none"
    /\ retries = 0
    /\ initial_delay = 0
    /\ attempt = 0
    /\ delay = 0
    /\ last_error = None
    /\ extracted_data = None
    /\ calls = 0
    /\ sleeps = <<>>
    /\ log = <<>>

InitCallers ==
    /\ upload = None
    /\ upload_response = None
    /\ receipts = [i \in ReceiptIds |-> "PENDING"]
    /\ parsed_data = <<>>
    /\ receipt_id = 0

\* an empty reports table
InitReports ==
    /\ reports = <<>>
    /\ response = None
    /\ inserted = 0
    /\ InitDashboard

\* a reports table holding rows of earlier months, oldest or newest first
InitReportsSeeded ==
    /\ reports \in {SeedTable(n, order) : n \in 0..MaxSeedRows, order \in {"asc", "desc"}}
    /\ response = None
    /\ inserted = 0
    /\ InitDashboard

Init == InitOcr /\ InitCallers /\ InitReports
InitSeeded == InitOcr /\ InitCallers /\ InitReportsSeeded

NextOcr ==
    \/ Extract
    \/ AttemptOpenFails
    \/ AttemptApiFails
    \/ AttemptDecodeFails
    \/ AttemptReturns
    \/ UploadFile
    \/ UploadFileFinish
    \/ ProcessReceipt
    \/ ProcessReceiptFinish

NextReports ==
    \/ GenerateReport
    \/ GetPredictionData
    \/ GetDashboardStats

SpecOcr == Init /\ [][NextOcr]_vars
\* the dashboard query by query, with writers in between
NextDashboard ==
    \/ GenerateReport
    \/ DeleteReport
    \/ DashCount
    \/ DashDates
    \/ DashRows

SpecReports == InitSeeded /\ [][NextReports]_vars
SpecDashboard == InitSeeded /\ [][NextDashboard]_vars
(***************************************************************************)
(* Properties of the extraction client and its callers (SpecOcr)           *)
(***************************************************************************)
\* the attempts started so far, and whether the function has ended
Started == Len(log) + (IF pc = "attempt" THEN 1 ELSE 0)
Finished == pc \in {"returned", "raised"} \/ (pc = "done" /\ log # <<>>)
Raised == Finished /\ log # <<>> /\ log[Len(log)].stage # "ok"

RECURSIVE Pow2(_)
Pow2(n) == IF n = 0 THEN 1 ELSE 2 * Pow2(n - 1)

RECURSIVE SumSecs(_)
SumSecs(s) == IF s = <<>> THEN 0 ELSE Head(s).secs + SumSecs(Tail(s))

\* the time slept between attempt k-1 and attempt k, that is before the k-th retry
WaitBefore(k) == SumSecs(SelectSeq(sleeps, LAMBDA z : z.after = k - 1))

\* C1: when the first upstream call fails with an error whose text has neither
\* marker, the function raises at once: one upstream call in total, no sleep,
\* no further attempt.
C1_NonRetryShortCircuit ==
    (log # <<>> /\ log[1].stage = "generate" /\ ~log[1].transient)
        => /\ Raised
           /\ calls = 1
           /\ sleeps = <<>>
           /\ Started = 1

\* every attempt so far reached the upstream and got a transient error
AllTransientUpstream ==
    /\ log # <<>>
    /\ \A i \in 1..Len(log) : log[i].stage = "generate" /\ log[i].transient

\* C2: at most retries + 1 upstream calls are ever made; when every upstream
\* call signals a transient error the function ends by raising, after exactly
\* retries + 1 calls, and never returns normally.
C2_RetryBound ==
    /\ calls <= retries + 1
    /\ (AllTransientUpstream /\ Finished)
          => /\ calls = retries + 1
             /\ Raised
             /\ extracted_data = None
    /\ (AllTransientUpstream /\ ~Finished) => pc = "attempt"

C2_Witness ==
    /\ pc = "raised"
    /\ retries = DefaultRetries
    /\ AllTransientUpstream
    /\ calls = DefaultRetries + 1

\* C3: an attempt whose text does not decode is the last one: no further
\* upstream call, and the decode error is what the function raises.
C3_DecodeFailureTerminal ==
    \A i \in 1..Len(log) :
        log[i].stage = "decode"
            => /\ i = Len(log)
               /\ Raised
               /\ last_error[1].type = "JSONDecodeError"
               /\ Started = i

\* C4: the wait before the k-th retry is initial_delay * 2^(k-1); a sleep
\* happens only after a transient error and right before a retry; nothing is
\* slept after the final attempt.
C4_ExponentialBackoff ==
    /\ \A k \in 1..(Started - 1) : WaitBefore(k) = initial_delay * Pow2(k - 1)
    /\ \A i \in 1..Len(sleeps) :
          /\ log[sleeps[i].after + 1].transient
          /\ sleeps[i].after + 1 < Started
    /\ Finished => WaitBefore(Len(log)) = 0

ConfidenceUnparseable(doc) ==
    /\ "confidence_score" \in DOMAIN doc
    /\ \/ doc.confidence_score.t = "null"
       \/ doc.confidence_score.t = "str" /\ doc.confidence_score.s \notin NumericStrings

\* C10: a receipt whose decoded confidence_score is no number (the other
\* fields being fine) ends PROCESSED, with a stored row whose
\* confidence_score is 0.0.
C10_ConfidenceFallback ==
    (/\ caller = "process_receipt"
     /\ pc = "done"
     /\ extracted_data # None
     /\ ConfidenceUnparseable(extracted_data[1])
     /\ AmountOf(extracted_data[1]).ok
     /\ ParseDate(extracted_data[1]).ok)
        => /\ receipts[receipt_id] = "PROCESSED"
           /\ parsed_data # <<>>
           /\ parsed_data[Len(parsed_data)].receipt_id = receipt_id
           /\ parsed_data[Len(parsed_data)].confidence_score = 0

(***************************************************************************)
(* Properties of the aggregations (SpecReports).  A response is compared   *)
(* with the table it was computed from: a handler leaves the table        *)
(* alone and generate_report replaces the response by its own.             *)
(***************************************************************************)
Abs(x) == IF x < 0 THEN -x ELSE x

RowIdx == 1..Len(reports)

RECURSIVE SumOver(_)
SumOver(idx) ==
    IF idx = {} THEN 0
    ELSE LET i == CHOOSE j \in idx : TRUE
         IN  (IF reports[i].amount = None THEN 0 ELSE reports[i].amount[1])
                 + SumOver(idx \ {i})

Toured == {i \in RowIdx : reports[i].tour_id # None}
Tours == {reports[i].tour_id[1] : i \in Toured}

IsPrediction == response # None /\ response[1].kind = "prediction"
IsDashboard == response # None /\ response[1].kind = "dashboard"

\* C6: sample_size is the number of distinct tour_id values; average_total is
\* the sum of all amounts (null as 0) of the rows with a tour_id, divided by
\* sample_size, to the nearest hundredth; with no such row the answer is
\* average_total 0, sample_size 0 and an empty by_category.
C6_PredictionAverage ==
    IsPrediction =>
        LET p == response[1]
        IN  /\ p.sample_size = Cardinality(Tours)
            /\ Toured = {} => p.average_total = 0 /\ p.by_category = <<>>
            /\ Toured # {} =>
                  2 * Abs(100 * SumOver(Toured) - p.average_total * p.sample_size)
                      <= p.sample_size

C6_Witness ==
    /\ IsPrediction
    /\ Cardinality(Tours) >= 3
    /\ Cardinality(Toured) > Cardinality(Tours)
    /\ \E i \in Toured : reports[i].amount = None
    /\ response[1].average_total % 100 # 0

\* the months that have a row, and their order in time
Months == {reports[i].created_at[1] : i \in {j \in RowIdx : reports[j].created_at # None}}
Earlier(a, b) == a[1] * 12 + a[2] < b[1] * 12 + b[2]
LatestMonths == {m \in Months : Cardinality({n \in Months : Earlier(m, n)}) < MonthlyWindow}
\* the i-th of the latest months, counting from the earliest
NthLatest(i) ==
    CHOOSE m \in LatestMonths : Cardinality({n \in LatestMonths : Earlier(n, m)}) = i - 1
CountIn(m) == Cardinality({i \in RowIdx : reports[i].created_at = Some(m)})

\* C7: monthly_stats has min(6, number of distinct months) entries, for the
\* latest months in ascending order, each with the number of rows of its
\* month; rows without created_at are not counted.
C7_MonthlyTruncation ==
    IsDashboard =>
        LET ms == response[1].monthly_stats
        IN  /\ Len(ms) = Cardinality(LatestMonths)
            /\ Len(ms) = IF Cardinality(Months) < 6 THEN Cardinality(Months) ELSE 6
            /\ \A i \in 1..Len(ms) :
                  /\ ms[i].month = MonthAbbr[NthLatest(i)[2]]
                  /\ ms[i].total = CountIn(NthLatest(i))
            /\ response[1].total_reports = Len(reports)

C7_Witness ==
    /\ IsDashboard
    /\ Cardinality(Months) = 9
    /\ Len(response[1].monthly_stats) = 6
    /\ \E i \in RowIdx : reports[i].created_at = None
    /\ \E i \in RowIdx : reports[i].created_at # None /\ CountIn(reports[i].created_at[1]) > 1
    /\ Earlier(reports[2].created_at[1], reports[1].created_at[1])

\* the category a row is counted under
CategoryOf(i) ==
    IF reports[i].category \in {None, Some("")} THEN DashboardDefaultCategory
    ELSE reports[i].category[1]
FirstSeen(c) == CHOOSE i \in RowIdx : CategoryOf(i) = c /\ \A j \in 1..(i - 1) : CategoryOf(j) # c

\* C8: category_stats has one entry per distinct category, in the order in
\* which the categories first occur in the table, each with the sum of the
\* amounts (null as 0) of all rows of its category.
C8_CategoryOrder ==
    IsDashboard =>
        LET cs == response[1].category_stats
        IN  /\ {cs[i].name : i \in 1..Len(cs)} = {CategoryOf(i) : i \in RowIdx}
            /\ Len(cs) = Cardinality({CategoryOf(i) : i \in RowIdx})
            /\ \A i, j \in 1..Len(cs) :
                  i < j => FirstSeen(cs[i].name) < FirstSeen(cs[j].name)
            /\ \A i \in 1..Len(cs) :
                  cs[i].value = SumOver({j \in RowIdx : CategoryOf(j) = cs[i].name})

\* rows of categories B, A, B in that order: B is listed first, with both amounts
C8_Witness ==
    /\ IsDashboard
    /\ Len(reports) >= 3
    /\ reports[1].category = Some("B")
    /\ reports[2].category = Some("A")
    /\ reports[3].category = Some("B")
    /\ response[1].category_stats[1].name = "B"
    /\ response[1].category_stats[2].name = "A"
    /\ response[1].category_stats[1].value >= NumOrZero(reports[1].amount) + NumOrZero(reports[3].amount)
    /\ NumOrZero(reports[1].amount) > 0
    /\ NumOrZero(reports[3].amount) > 0

\* C9: the rows without a category are counted under "Uncategorized", the
\* label get_prediction_data uses, and their amounts are in that entry's total.
C9_DefaultLabel ==
    (IsDashboard /\ \E i \in RowIdx : reports[i].category = None) =>
        LET cs == response[1].category_stats
        IN  \E k \in 1..Len(cs) :
               /\ cs[k].name = PredictionDefaultCategory
               /\ cs[k].value =
                      SumOver({i \in RowIdx :
                                  reports[i].category \in
                                      {None, Some(""), Some(PredictionDefaultCategory)}})

(***************************************************************************)
(* Property of the dashboard run beside writers (SpecDashboard)            *)
(***************************************************************************)
RECURSIVE SumTotals(_)
SumTotals(ms) == IF ms = <<>> THEN 0 ELSE Head(ms).total + SumTotals(Tail(ms))

\* the dates the handler read, by either query
DatesRead == {dash_all_dates[i] : i \in 1..Len(dash_all_dates)}
                 \cup {dash_rows[i].created_at : i \in 1..Len(dash_rows)}

\* every row read has a created_at, and first to last they span at most 6 months
TimestampedWithinWindow ==
    /\ None \notin DatesRead
    /\ \A a, b \in DatesRead :
          (b[1][1] * 12 + b[1][2]) - (a[1][1] * 12 + a[1][2]) < MonthlyWindow

\* C11: the answer of get_dashboard_stats is that of one snapshot of the
\* table, whatever generate_report and delete_report commit between its
\* queries: total_reports is the number of rows counted into category_stats,
\* and when every row has a created_at and the rows span at most 6 months
\* the counts of monthly_stats add up to total_reports.
C11_SnapshotConsistency ==
    (dpc = "done" /\ IsDashboard) =>
        /\ response[1] = Dashboard(dash_rows)
        /\ response[1].total_reports = Len(dash_rows)
        /\ TimestampedWithinWindow =>
              SumTotals(response[1].monthly_stats) = response[1].total_reports

=============================================================================
